---- MODULE Spec2Model ----
(***************************************************************************)
(* A model of the chess rule engine of realtime-chess-react                *)
(* (src/utils/chessLogic.ts, src/types.ts).                                *)
(*                                                                         *)
(* A GameState is a record.  Its capturedPieces field is an object that    *)
(* executeMove shares between the state it is given and the state it       *)
(* returns (nextState = { ...prevState } is a shallow copy), so the model  *)
(* keeps these objects in a heap and a GameState holds a reference.        *)
(*                                                                         *)
(* The Socket.io server of the README (src/unnamed/part_000) keeps its     *)
(* rooms in a registry and plays on chess.js, not on this engine; it is    *)
(* modelled by the variables rooms .. running and the specifications       *)
(* SpecServer (three sockets, two rooms, a few events) and SpecGame (two   *)
(* sockets playing one game in one room, to a mate or to a draw).          *)
(*                                                                         *)
(* SpecCalls follows the calls the engine's functions make to one another: *)
(* the variable stack holds the calls in progress, the data they work on   *)
(* is left open.                                                           *)
(***************************************************************************)
EXTENDS Integers, Sequences, FiniteSets, TLC

VARIABLES
  heap,       \* the capturedPieces objects: heap[ref] = [w |-> <<..>>, b |-> <<..>>]
  state,      \* the GameState the caller holds: the result of the last call
  prevState,  \* the GameState passed to the last executeMove call (a snapshot the caller retains)
  prevValue,  \* what prevState held, capturedPieces included, when that call was made
  lastCall,   \* the arguments of the last executeMove call and what it returned, read on return
  replay,     \* the result of calling executeMove a second time with lastCall's arguments
  calls,      \* the executeMove calls of this game, as (from, to, promotionOverride)
  free,       \* how many of them were not taken from the book lines
  other,      \* a GameState from a separate createInitialState() call, never played on
  rooms,      \* the server's registry: rooms[roomId] is a room, or NoRoom
  sockets,    \* per socket id: connected, socket.roomId, socket.playerColor
  request,    \* the event the server handled last
  emitted,    \* what that handler emitted, in order
  handled,    \* how many events the server has handled
  running,    \* whether the server process is alive
  stack       \* the calls of the engine in progress, innermost last

engine == <<heap, state, prevState, prevValue, lastCall, replay, calls, free, other>>
server == <<rooms, sockets, request, emitted, handled, running>>
control == <<stack>>
vars == <<engine, server, control>>

-----------------------------------------------------------------------------
(* src/types.ts *)

\* JavaScript's null / undefined where a Piece or a Position is expected
null == [type |-> "-", color |-> "-"]
\* an absent promotion / promotionOverride
undefined == ""

Color == {"w", "b"}
PieceType == {"p", "r", "n", "b", "q", "k"}
Piece(t, c) == [type |-> t, color |-> c]
Position(r, c) == [row |-> r, col |-> c]
Squares == {Position(r, c) : r \in 0..7, c \in 0..7}

Opponent(color) == IF color = "w" THEN "b" ELSE "w"

-----------------------------------------------------------------------------
(* src/utils/chessLogic.ts *)

BackRank == <<"r", "n", "b", "q", "k", "b", "n", "r">>

INITIAL_BOARD ==
  [r \in 0..7 |-> [c \in 0..7 |->
     CASE r = 0 -> Piece(BackRank[c + 1], "b")
       [] r = 1 -> Piece("p", "b")
       [] r = 6 -> Piece("p", "w")
       [] r = 7 -> Piece(BackRank[c + 1], "w")
       [] OTHER -> null]]

\* mutant: every state returned holds the same capturedPieces object
createInitialState_SharedCaptured(ref) ==
  [board |-> INITIAL_BOARD,
   turn |-> "w",
   castlingRights |-> [w |-> [kingSide |-> TRUE, queenSide |-> TRUE],
                       b |-> [kingSide |-> TRUE, queenSide |-> TRUE]],
   enPassantTarget |-> null,
   halfMoveClock |-> 0,
   fullMoveNumber |-> 1,
   history |-> <<>>,
   isCheck |-> FALSE,
   isCheckmate |-> FALSE,
   isStalemate |-> FALSE,
   capturedPieces |-> 1]

\* createInitialState(): a fresh capturedPieces object is allocated at `ref`
createInitialState(ref) ==
  [board |-> INITIAL_BOARD,
   turn |-> "w",
   castlingRights |-> [w |-> [kingSide |-> TRUE, queenSide |-> TRUE],
                       b |-> [kingSide |-> TRUE, queenSide |-> TRUE]],
   enPassantTarget |-> null,
   halfMoveClock |-> 0,
   fullMoveNumber |-> 1,
   history |-> <<>>,
   isCheck |-> FALSE,
   isCheckmate |-> FALSE,
   isStalemate |-> FALSE,
   capturedPieces |-> ref]

EmptyCaptured == [w |-> <<>>, b |-> <<>>]

onBoard(r, c) == r >= 0 /\ r < 8 /\ c >= 0 /\ c < 8

copyBoard(board) ==
  [r \in DOMAIN board |-> [c \in DOMAIN board[r] |->
     IF board[r][c] # null
       THEN [type |-> board[r][c].type, color |-> board[r][c].color]
       ELSE null]]

NoRights == [w |-> [kingSide |-> FALSE, queenSide |-> FALSE],
             b |-> [kingSide |-> FALSE, queenSide |-> FALSE]]

directions ==
  [n |-> << <<-2, -1>>, <<-2, 1>>, <<-1, -2>>, <<-1, 2>>, <<1, -2>>, <<1, 2>>, <<2, -1>>, <<2, 1>> >>,
   b |-> << <<-1, -1>>, <<-1, 1>>, <<1, -1>>, <<1, 1>> >>,
   r |-> << <<-1, 0>>, <<1, 0>>, <<0, -1>>, <<0, 1>> >>,
   q |-> << <<-1, -1>>, <<-1, 1>>, <<1, -1>>, <<1, 1>>, <<-1, 0>>, <<1, 0>>, <<0, -1>>, <<0, 1>> >>,
   k |-> << <<-1, -1>>, <<-1, 1>>, <<1, -1>>, <<1, 1>>, <<-1, 0>>, <<1, 0>>, <<0, -1>>, <<0, 1>> >>]

\* addMove without `special`
addMove(board, pos, piece, r, c) ==
  [from |-> pos,
   to |-> Position(r, c),
   piece |-> piece,
   captured |-> board[r][c],
   promotion |-> undefined,
   isCastling |-> FALSE,
   isEnPassant |-> FALSE]

\* addMove(r, c) or addMove(r, c, { promotion: 'q' }) on the last rank
addPawnMove(board, pos, piece, r, c) ==
  IF r = 0 \/ r = 7
    THEN [addMove(board, pos, piece, r, c) EXCEPT !.promotion = "q"]
    ELSE addMove(board, pos, piece, r, c)

\* mutant: the pawn never advances two rows
PawnForward_SingleStep(board, pos, piece) ==
  LET row == pos.row
      col == pos.col
      direction == IF piece.color = "w" THEN -1 ELSE 1
  IN IF onBoard(row + direction, col) /\ board[row + direction][col] = null
       THEN <<addPawnMove(board, pos, piece, row + direction, col)>>
       ELSE <<>>

PawnForward(board, pos, piece) ==
  LET row == pos.row
      col == pos.col
      direction == IF piece.color = "w" THEN -1 ELSE 1
      startRow == IF piece.color = "w" THEN 6 ELSE 1
  IN IF onBoard(row + direction, col) /\ board[row + direction][col] = null
       THEN <<addPawnMove(board, pos, piece, row + direction, col)>>
            \o (IF row = startRow /\ onBoard(row + 2 * direction, col)
                   /\ board[row + 2 * direction][col] = null
                  THEN <<addMove(board, pos, piece, row + 2 * direction, col)>>
                  ELSE <<>>)
       ELSE <<>>

PawnDiagonal(board, pos, piece, enPassantTarget, dc) ==
  LET nr == pos.row + (IF piece.color = "w" THEN -1 ELSE 1)
      nc == pos.col + dc
  IN IF ~onBoard(nr, nc) THEN <<>>
     ELSE IF board[nr][nc] # null /\ board[nr][nc].color # piece.color
       THEN <<addPawnMove(board, pos, piece, nr, nc)>>
     ELSE IF enPassantTarget # null /\ nr = enPassantTarget.row /\ nc = enPassantTarget.col
       THEN <<[addMove(board, pos, piece, nr, nc) EXCEPT
                 !.isEnPassant = TRUE,
                 !.captured = Piece("p", Opponent(piece.color))]>>
     ELSE <<>>

\* one entry of the knight / king offset table
StepMove(board, pos, piece, d) ==
  LET nr == pos.row + d[1]
      nc == pos.col + d[2]
  IN IF onBoard(nr, nc) /\ (board[nr][nc] = null \/ board[nr][nc].color # piece.color)
       THEN <<addMove(board, pos, piece, nr, nc)>>
       ELSE <<>>

RECURSIVE StepMoves(_, _, _, _, _)
StepMoves(board, pos, piece, dirs, i) ==
  IF i > Len(dirs) THEN <<>>
  ELSE StepMove(board, pos, piece, dirs[i]) \o StepMoves(board, pos, piece, dirs, i + 1)

\* mutant: candidates are generated without looking at the rights
CastlingMoves_IgnoreRights(board, pos, piece, castlingRights) ==
  LET rights == IF piece.color = "w" THEN castlingRights.w ELSE castlingRights.b
      rowIdx == IF piece.color = "w" THEN 7 ELSE 0
  IN IF pos.row = rowIdx /\ pos.col = 4
       THEN (IF board[rowIdx][5] = null /\ board[rowIdx][6] = null
                /\ board[rowIdx][7].type = "r" /\ board[rowIdx][7].color = piece.color
               THEN <<[addMove(board, pos, piece, rowIdx, 6) EXCEPT !.isCastling = TRUE]>>
               ELSE <<>>)
            \o
            (IF board[rowIdx][3] = null /\ board[rowIdx][2] = null
                /\ board[rowIdx][1] = null
                /\ board[rowIdx][0].type = "r" /\ board[rowIdx][0].color = piece.color
               THEN <<[addMove(board, pos, piece, rowIdx, 2) EXCEPT !.isCastling = TRUE]>>
               ELSE <<>>)
       ELSE <<>>

CastlingMoves(board, pos, piece, castlingRights) ==
  LET rights == IF piece.color = "w" THEN castlingRights.w ELSE castlingRights.b
      rowIdx == IF piece.color = "w" THEN 7 ELSE 0
  IN IF pos.row = rowIdx /\ pos.col = 4
       THEN (IF rights.kingSide /\ board[rowIdx][5] = null /\ board[rowIdx][6] = null
                /\ board[rowIdx][7].type = "r" /\ board[rowIdx][7].color = piece.color
               THEN <<[addMove(board, pos, piece, rowIdx, 6) EXCEPT !.isCastling = TRUE]>>
               ELSE <<>>)
            \o
            (IF rights.queenSide /\ board[rowIdx][3] = null /\ board[rowIdx][2] = null
                /\ board[rowIdx][1] = null
                /\ board[rowIdx][0].type = "r" /\ board[rowIdx][0].color = piece.color
               THEN <<[addMove(board, pos, piece, rowIdx, 2) EXCEPT !.isCastling = TRUE]>>
               ELSE <<>>)
       ELSE <<>>

\* the while loop of a sliding piece along one direction, from square (nr, nc) on
RECURSIVE Ray(_, _, _, _, _, _)
Ray(board, pos, piece, nr, nc, d) ==
  IF ~onBoard(nr, nc) THEN <<>>
  ELSE IF board[nr][nc] = null
    THEN <<addMove(board, pos, piece, nr, nc)>>
         \o Ray(board, pos, piece, nr + d[1], nc + d[2], d)
  ELSE IF board[nr][nc].color # piece.color
    THEN <<addMove(board, pos, piece, nr, nc)>>
  ELSE <<>>

RECURSIVE SlidingMoves(_, _, _, _, _)
SlidingMoves(board, pos, piece, dirs, i) ==
  IF i > Len(dirs) THEN <<>>
  ELSE Ray(board, pos, piece, pos.row + dirs[i][1], pos.col + dirs[i][2], dirs[i])
       \o SlidingMoves(board, pos, piece, dirs, i + 1)

getPseudoLegalMoves(board, pos, castlingRights, enPassantTarget) ==
  LET piece == board[pos.row][pos.col]
  IN IF piece = null THEN <<>>
     ELSE IF piece.type = "p"
       THEN PawnForward(board, pos, piece)
            \o PawnDiagonal(board, pos, piece, enPassantTarget, -1)
            \o PawnDiagonal(board, pos, piece, enPassantTarget, 1)
     ELSE IF piece.type = "n" \/ piece.type = "k"
       THEN StepMoves(board, pos, piece, directions[piece.type], 1)
            \o (IF piece.type = "k"
                  THEN CastlingMoves(board, pos, piece, castlingRights)
                  ELSE <<>>)
     ELSE SlidingMoves(board, pos, piece, directions[piece.type], 1)

isSquareAttacked(board, pos, attackerColor) ==
  \E r \in 0..7 : \E c \in 0..7 :
    /\ board[r][c] # null
    /\ board[r][c].color = attackerColor
    /\ LET moves == getPseudoLegalMoves(board, Position(r, c), NoRights, null)
       IN \E i \in DOMAIN moves : moves[i].to.row = pos.row /\ moves[i].to.col = pos.col

\* the squares holding a king of `color`
Kings(board, color) ==
  {p \in Squares : board[p.row][p.col] = Piece("k", color)}

\* kingPos as the two loops leave it: `break` ends the scan of a row only, so a
\* later row overwrites an earlier one
kingPos(board, color) ==
  LET ks == Kings(board, color)
      lastRow == CHOOSE r \in {p.row : p \in ks} : \A p \in ks : p.row <= r
      firstCol == CHOOSE c \in {p.col : p \in {q \in ks : q.row = lastRow}} :
                    \A p \in ks : p.row = lastRow => c <= p.col
  IN IF ks = {} THEN null ELSE Position(lastRow, firstCol)

\* mutant: the attack is looked for from the king's own side
isKingInCheck_OwnColor(board, color) ==
  LET kp == kingPos(board, color)
  IN IF kp = null THEN TRUE
     ELSE isSquareAttacked(board, kp, color)

isKingInCheck(board, color) ==
  LET kp == kingPos(board, color)
  IN IF kp = null THEN TRUE
     ELSE isSquareAttacked(board, kp, Opponent(color))

\* the board getLegalMoves simulates a candidate on
tempBoard(board, move) ==
  LET moved == [copyBoard(board) EXCEPT ![move.to.row][move.to.col] = move.piece,
                                        ![move.from.row][move.from.col] = null]
  IN IF move.isEnPassant
       THEN [moved EXCEPT ![move.from.row][move.to.col] = null]
       ELSE moved

\* mutant: the simulated board is tested for the other side's king
keepsMove_WrongKing(gameState, move) ==
  /\ ~isKingInCheck(tempBoard(gameState.board, move), Opponent(gameState.turn))
  /\ move.isCastling =>
       /\ ~isKingInCheck(gameState.board, gameState.turn)
       /\ ~isSquareAttacked(gameState.board,
                            Position(move.from.row, (move.from.col + move.to.col) \div 2),
                            Opponent(gameState.turn))

\* whether the loop of getLegalMoves pushes the candidate
keepsMove(gameState, move) ==
  /\ ~isKingInCheck(tempBoard(gameState.board, move), gameState.turn)
  /\ move.isCastling =>
       /\ ~isKingInCheck(gameState.board, gameState.turn)
       /\ ~isSquareAttacked(gameState.board,
                            Position(move.from.row, (move.from.col + move.to.col) \div 2),
                            Opponent(gameState.turn))

getLegalMoves(gameState, pos) ==
  SelectSeq(getPseudoLegalMoves(gameState.board, pos, gameState.castlingRights,
                                gameState.enPassantTarget),
            LAMBDA move : keepsMove(gameState, move))

\* String.fromCharCode(97 + col)
fileLetter(col) == <<"a", "b", "c", "d", "e", "f", "g", "h">>[col + 1]

\* PieceType.toUpperCase()
toUpperCase(t) ==
  CASE t = "p" -> "P" [] t = "r" -> "R" [] t = "n" -> "N"
    [] t = "b" -> "B" [] t = "q" -> "Q" [] t = "k" -> "K"

\* mutant: the rank digit counts rows from the top
getSan_RankFromTop(move, board, check, mate) ==
  IF move.isCastling
    THEN (IF move.to.col > move.from.col THEN "O-O" ELSE "O-O-O")
    ELSE (IF move.piece.type # "p" THEN toUpperCase(move.piece.type) ELSE "")
         \o (IF move.captured # null \/ move.isEnPassant
               THEN (IF move.piece.type = "p" THEN fileLetter(move.from.col) ELSE "") \o "x"
               ELSE "")
         \o fileLetter(move.to.col) \o ToString(move.to.row + 1)
         \o (IF move.promotion # undefined THEN "=" \o toUpperCase(move.promotion) ELSE "")
         \o (IF mate THEN "#" ELSE IF check THEN "+" ELSE "")

getSan(move, board, check, mate) ==
  IF move.isCastling
    THEN (IF move.to.col > move.from.col THEN "O-O" ELSE "O-O-O")
    ELSE (IF move.piece.type # "p" THEN toUpperCase(move.piece.type) ELSE "")
         \o (IF move.captured # null \/ move.isEnPassant
               THEN (IF move.piece.type = "p" THEN fileLetter(move.from.col) ELSE "") \o "x"
               ELSE "")
         \o fileLetter(move.to.col) \o ToString(8 - move.to.row)
         \o (IF move.promotion # undefined THEN "=" \o toUpperCase(move.promotion) ELSE "")
         \o (IF mate THEN "#" ELSE IF check THEN "+" ELSE "")

\* mutant: the promotion piece is the generator's placeholder, whatever the caller asks
movedPiece_IgnoreOverride(move, promotionOverride) ==
  IF move.promotion # undefined
    THEN [move.piece EXCEPT !.type = move.promotion]
    ELSE move.piece

\* the piece executeMove puts on move.to
movedPiece(move, promotionOverride) ==
  IF move.promotion # undefined \/ promotionOverride # undefined
    THEN [move.piece EXCEPT !.type =
            IF promotionOverride # undefined THEN promotionOverride
            ELSE IF move.promotion # undefined THEN move.promotion
            ELSE "q"]
    ELSE move.piece

\* the piece executeMove counts as captured (null: none)
capturedOf(board, move) ==
  IF move.isEnPassant THEN board[move.from.row][move.to.col] ELSE move.captured

\* mutant: the pawn taken en passant stays on the board
clearEnPassant_KeepsPawn(board, move) == board

\* board[capRow][capCol] = null for an en-passant capture
clearEnPassant(board, move) ==
  IF move.isEnPassant
    THEN [board EXCEPT ![move.from.row][move.to.col] = null]
    ELSE board

\* mutant: the type goes to the list of the capturing color
recordCapture_MoverList(h, ref, capturedPiece) ==
  IF capturedPiece = null THEN h
  ELSE IF capturedPiece.color = "w"
    THEN [h EXCEPT ![ref].b = Append(@, capturedPiece.type)]
    ELSE [h EXCEPT ![ref].w = Append(@, capturedPiece.type)]

\* nextState.capturedPieces.w = [...] assigns into the object prevState shares
recordCapture(h, ref, capturedPiece) ==
  IF capturedPiece = null THEN h
  ELSE IF capturedPiece.color = "w"
    THEN [h EXCEPT ![ref].w = Append(@, capturedPiece.type)]
    ELSE [h EXCEPT ![ref].b = Append(@, capturedPiece.type)]

\* mutant: the rook is put next to the king and its corner is not cleared
castleRook_KeepsCorner(board, move) ==
  IF ~move.isCastling THEN board
  ELSE IF move.to.col = 6
    THEN [board EXCEPT ![move.from.row][5] = board[move.from.row][7]]
    ELSE [board EXCEPT ![move.from.row][3] = board[move.from.row][0]]

castleRook(board, move) ==
  IF ~move.isCastling THEN board
  ELSE IF move.to.col = 6
    THEN [board EXCEPT ![move.from.row][5] = board[move.from.row][7],
                       ![move.from.row][7] = null]
    ELSE [board EXCEPT ![move.from.row][3] = board[move.from.row][0],
                       ![move.from.row][0] = null]

\* mutant: a king move starts from the rights of the initial state, not from the
\* previous ones
updateRights_FromInitial(castlingRights, piece, move, capturedPiece) ==
  LET initial == createInitialState(1).castlingRights
      byKing == IF piece.type # "k" THEN castlingRights
                ELSE IF piece.color = "w" THEN [initial EXCEPT !.w = NoRights.w]
                ELSE [initial EXCEPT !.b = NoRights.b]
      corner(rights, pos) ==
        [w |-> [kingSide |-> rights.w.kingSide /\ ~(pos.row = 7 /\ pos.col = 7),
                queenSide |-> rights.w.queenSide /\ ~(pos.row = 7 /\ pos.col = 0)],
         b |-> [kingSide |-> rights.b.kingSide /\ ~(pos.row = 0 /\ pos.col = 7),
                queenSide |-> rights.b.queenSide /\ ~(pos.row = 0 /\ pos.col = 0)]]
      byRook == IF piece.type = "r" THEN corner(byKing, move.from) ELSE byKing
  IN IF capturedPiece # null /\ capturedPiece.type = "r"
       THEN corner(byRook, move.to)
       ELSE byRook

\* mutant: the capture of a rook on its corner is not looked at
updateRights_NoCapture(castlingRights, piece, move, capturedPiece) ==
  LET byKing == IF piece.type # "k" THEN castlingRights
                ELSE IF piece.color = "w" THEN [castlingRights EXCEPT !.w = NoRights.w]
                ELSE [castlingRights EXCEPT !.b = NoRights.b]
      corner(rights, pos) ==
        [w |-> [kingSide |-> rights.w.kingSide /\ ~(pos.row = 7 /\ pos.col = 7),
                queenSide |-> rights.w.queenSide /\ ~(pos.row = 7 /\ pos.col = 0)],
         b |-> [kingSide |-> rights.b.kingSide /\ ~(pos.row = 0 /\ pos.col = 7),
                queenSide |-> rights.b.queenSide /\ ~(pos.row = 0 /\ pos.col = 0)]]
  IN IF piece.type = "r" THEN corner(byKing, move.from) ELSE byKing

\* mutant: a rook leaving its corner keeps the right
updateRights_NoRookMove(castlingRights, piece, move, capturedPiece) ==
  LET byKing == IF piece.type # "k" THEN castlingRights
                ELSE IF piece.color = "w" THEN [castlingRights EXCEPT !.w = NoRights.w]
                ELSE [castlingRights EXCEPT !.b = NoRights.b]
      corner(rights, pos) ==
        [w |-> [kingSide |-> rights.w.kingSide /\ ~(pos.row = 7 /\ pos.col = 7),
                queenSide |-> rights.w.queenSide /\ ~(pos.row = 7 /\ pos.col = 0)],
         b |-> [kingSide |-> rights.b.kingSide /\ ~(pos.row = 0 /\ pos.col = 7),
                queenSide |-> rights.b.queenSide /\ ~(pos.row = 0 /\ pos.col = 0)]]
  IN IF capturedPiece # null /\ capturedPiece.type = "r"
       THEN corner(byKing, move.to)
       ELSE byKing

updateRights(castlingRights, piece, move, capturedPiece) ==
  LET byKing == IF piece.type # "k" THEN castlingRights
                ELSE IF piece.color = "w" THEN [castlingRights EXCEPT !.w = NoRights.w]
                ELSE [castlingRights EXCEPT !.b = NoRights.b]
      corner(rights, pos) ==
        [w |-> [kingSide |-> rights.w.kingSide /\ ~(pos.row = 7 /\ pos.col = 7),
                queenSide |-> rights.w.queenSide /\ ~(pos.row = 7 /\ pos.col = 0)],
         b |-> [kingSide |-> rights.b.kingSide /\ ~(pos.row = 0 /\ pos.col = 7),
                queenSide |-> rights.b.queenSide /\ ~(pos.row = 0 /\ pos.col = 0)]]
      byRook == IF piece.type = "r" THEN corner(byKing, move.from) ELSE byKing
  IN IF capturedPiece # null /\ capturedPiece.type = "r"
       THEN corner(byRook, move.to)
       ELSE byRook

\* mutant: the target is the square the pawn lands on
updateEnPassant_ToSquare(piece, move) ==
  IF piece.type = "p"
     /\ (move.to.row - move.from.row = 2 \/ move.from.row - move.to.row = 2)
    THEN Position(move.to.row, move.from.col)
    ELSE null

\* mutant: every pawn move sets a target
updateEnPassant_AnyPawnMove(piece, move) ==
  IF piece.type = "p"
    THEN Position((move.from.row + move.to.row) \div 2, move.from.col)
    ELSE null

updateEnPassant(piece, move) ==
  IF piece.type = "p"
     /\ (move.to.row - move.from.row = 2 \/ move.from.row - move.to.row = 2)
    THEN Position((move.from.row + move.to.row) \div 2, move.from.col)
    ELSE null

\* nextState.turn
nextTurn(prev) == IF prev.turn = "w" THEN "b" ELSE "w"

\* mutant: the number goes up with every move
nextFullMoveNumber_EveryMove(prev) == prev.fullMoveNumber + 1

\* nextState.fullMoveNumber
nextFullMoveNumber(prev) ==
  IF prev.turn = "b" THEN prev.fullMoveNumber + 1 ELSE prev.fullMoveNumber

\* mutant: the scan does not look at the color of the piece
hasLegalMoves_AnyColor(nextState) ==
  \E r \in 0..7 : \E c \in 0..7 :
    /\ nextState.board[r][c] # null
    /\ Len(getLegalMoves(nextState, Position(r, c))) > 0

\* the scan "Count legal moves for next player"
hasLegalMoves(nextState) ==
  \E r \in 0..7 : \E c \in 0..7 :
    /\ nextState.board[r][c].color = nextState.turn
    /\ Len(getLegalMoves(nextState, Position(r, c))) > 0

\* executeMove on heap h: the state returned and the heap it leaves
executeMove(h, prev, move, promotionOverride) ==
  LET piece == movedPiece(move, promotionOverride)
      placed == [copyBoard(prev.board) EXCEPT ![move.to.row][move.to.col] = piece,
                                             ![move.from.row][move.from.col] = null]
      capturedPiece == capturedOf(placed, move)
      cleared == clearEnPassant(placed, move)
      board == castleRook(cleared, move)
      turn == nextTurn(prev)
      isCheck == isKingInCheck(board, turn)
      moved == [prev EXCEPT
                  !.castlingRights = updateRights(prev.castlingRights, piece, move, capturedPiece),
                  !.enPassantTarget = updateEnPassant(piece, move),
                  !.board = board,
                  !.turn = turn,
                  !.fullMoveNumber = nextFullMoveNumber(prev),
                  !.isCheck = isCheck]
      stuck == ~hasLegalMoves(moved)
      isCheckmate == prev.isCheckmate \/ (stuck /\ isCheck)
      isStalemate == prev.isStalemate \/ (stuck /\ ~isCheck)
      san == getSan(move, prev.board, isCheck, isCheckmate)
  IN [nextState |-> [moved EXCEPT
                       !.isCheckmate = isCheckmate,
                       !.isStalemate = isStalemate,
                       !.history = Append(@, [from |-> move.from, to |-> move.to,
                                              piece |-> move.piece, captured |-> move.captured,
                                              promotion |-> move.promotion,
                                              isCastling |-> move.isCastling,
                                              isEnPassant |-> move.isEnPassant,
                                              san |-> san])],
      heap |-> recordCapture(h, prev.capturedPieces, capturedPiece)]

\* a GameState read through its references: what a deep copy or a serialisation holds
valueOf(h, gameState) == [gameState EXCEPT !.capturedPieces = h[gameState.capturedPieces]]

-----------------------------------------------------------------------------
(* The games explored: the book lines below, each played from the initial   *)
(* state, and from every position of a line up to MaxFree further moves     *)
(* chosen freely among the legal ones.                                      *)

MaxFree == 1

Ply(fr, fc, tr, tc, promo) ==
  [from |-> Position(fr, fc), to |-> Position(tr, tc), promotionOverride |-> promo]
Go(fr, fc, tr, tc) == Ply(fr, fc, tr, tc, undefined)

\* f3 e5 g4 Qh4#
FoolsMate == << Go(6,5,5,5), Go(1,4,3,4), Go(6,6,4,6), Go(0,3,4,7) >>

Lines ==
  { FoolsMate,
    \* e4 e5 Nf3 Nf6 Bc4 Bc5 O-O O-O
    << Go(6,4,4,4), Go(1,4,3,4), Go(7,6,5,5), Go(0,6,2,5), Go(7,5,4,2), Go(0,5,3,2),
       Go(7,4,7,6), Go(0,4,0,6) >>,
    \* d4 d5 Nc3 Nc6 Bf4 Bf5 Qd2 Qd7 O-O-O O-O-O
    << Go(6,3,4,3), Go(1,3,3,3), Go(7,1,5,2), Go(0,1,2,2), Go(7,2,4,5), Go(0,2,3,5),
       Go(7,3,6,3), Go(0,3,1,3), Go(7,4,7,2), Go(0,4,0,2) >>,
    \* e4 a6 e5 d5 exd6 (en passant)
    << Go(6,4,4,4), Go(1,0,2,0), Go(4,4,3,4), Go(1,3,3,3), Go(3,4,2,3) >>,
    \* h4 g5 hxg5 h6 gxh6 Bg7 hxg7 a6 gxh8=N
    << Go(6,7,4,7), Go(1,6,3,6), Go(4,7,3,6), Go(1,7,2,7), Go(3,6,2,7), Go(0,5,1,6),
       Go(2,7,1,6), Go(1,0,2,0), Ply(1,6,0,7,"n") >>,
    \* e3 a5 Qh5 Ra6 Qxa5 h5 h4 Rah6 Qxc7 f6 Qxd7+ Kf7 Qxb7 Qd3 Qxb8 Qh7 Qxc8 Kg6 Qe6 (stalemate)
    << Go(6,4,5,4), Go(1,0,3,0), Go(7,3,3,7), Go(0,0,2,0), Go(3,7,3,0), Go(1,7,3,7),
       Go(6,7,4,7), Go(2,0,2,7), Go(3,0,1,2), Go(1,5,2,5), Go(1,2,1,3), Go(0,4,1,5),
       Go(1,3,1,1), Go(0,3,5,3), Go(1,1,0,1), Go(5,3,1,7), Go(0,1,0,2), Go(1,5,2,6),
       Go(0,2,2,4) >>,
    \* e4 h5 Nf3 h4 Bc4 h3 a3 hxg2 O-O
    << Go(6,4,4,4), Go(1,7,3,7), Go(7,6,5,5), Go(3,7,4,7), Go(7,5,4,2), Go(4,7,5,7),
       Go(6,0,5,0), Go(5,7,6,6), Go(7,4,7,6) >>,
    \* e4 e5 Nf3 Nf6 Be2 Be7 Rg1 Rg8 Rh1 Rh8 (the rooks are back, the rights are not)
    << Go(6,4,4,4), Go(1,4,3,4), Go(7,6,5,5), Go(0,6,2,5), Go(7,5,6,4), Go(0,5,1,4),
       Go(7,7,7,6), Go(0,7,0,6), Go(7,6,7,7), Go(0,6,0,7) >> }

\* the promotionOverride of a call in legal play: a promotion piece with a promotion
\* candidate, none with any other move.  executeMove itself takes any PieceType with
\* any move; those calls are the ones of ExecuteOverride (SpecOverride).
Overrides(move) ==
  IF move.promotion # undefined THEN {undefined, "q", "r", "b", "n"} ELSE {undefined}

IsPrefix(s, t) == Len(s) <= Len(t) /\ \A i \in DOMAIN s : s[i] = t[i]
OnBook(cs) == \E l \in Lines : IsPrefix(cs, l)

CallOf(move, promotionOverride) ==
  [from |-> move.from, to |-> move.to, promotionOverride |-> promotionOverride]

\* the squares holding a piece of the side to move
OwnSquares(gameState) ==
  {p \in Squares : gameState.board[p.row][p.col].color = gameState.turn}

NoCall == [move |-> null, promotionOverride |-> undefined, result |-> null]

-----------------------------------------------------------------------------
(* src/unnamed/part_000: the Socket.io server.                              *)

\* the events of a run: enough for two joins and the four plies of the fool's mate
MaxEvents == 6

\* the chat messages a room keeps in a run
MaxChat == 1

SocketIds == {"s1", "s2", "s3"}
RoomIds == {"r1", "r2"}

\* the events of a game between two players of one room: two joins and the eight
\* plies after which the knights have come home twice
MaxGameEvents == 10

\* chess.js is a dependency, not part of the repository.  A Chess object is modelled
\* by the moves it has accepted, over the requests below: the moves of the fool's
\* mate, and the king's knights going out and home again.  The rules of chess are
\* spelled out for these eight moves on the board they lead to.
Requests == {"f2f3", "e7e5", "g2g4", "d8h4"}
Shuffle == {"g1f3", "g8f6", "f3g1", "f6g8"}

\* the two sockets that play the game of SpecGame, in the room they play it in
Players == {"s1", "s2"}
Table == "r1"

\* new Chess()
Chess == <<>>

Played(chess, m) == \E i \in DOMAIN chess : chess[i] = m

\* how often the Chess object accepted m
Count(chess, m) == Cardinality({i \in DOMAIN chess : chess[i] = m})

\* chess.turn()
chessTurn(chess) == IF Len(chess) % 2 = 0 THEN "w" ELSE "b"

\* chess.board(), as far as these moves change it: the pawns that have advanced,
\* the queen on h4, the knights out on f3 and f6
chessBoard(chess) ==
  [f3 |-> Played(chess, "f2f3"),
   g4 |-> Played(chess, "g2g4"),
   e5 |-> Played(chess, "e7e5"),
   Qh4 |-> Played(chess, "d8h4"),
   Nf3 |-> Count(chess, "g1f3") > Count(chess, "f3g1"),
   Nf6 |-> Count(chess, "g8f6") > Count(chess, "f6g8")]

\* chess.isCheck(): the queen on h4 sees e1 once the f-pawn has left f2
chessIsCheck(chess) == chessBoard(chess).Qh4 /\ chessBoard(chess).f3

\* chess.isCheckmate(): with the g-pawn on g4 nothing can step onto g3
chessIsCheckmate(chess) == chessIsCheck(chess) /\ chessBoard(chess).g4

\* the position chess.js counts for repetitions: placement and side to move (castling
\* rights never change here and no en passant capture is ever possible)
chessPosition(chess) == [board |-> chessBoard(chess), turn |-> chessTurn(chess)]

\* chess.isThreefoldRepetition()
chessIsThreefoldRepetition(chess) ==
  Cardinality({i \in 0..Len(chess) :
                 chessPosition(SubSeq(chess, 1, i)) = chessPosition(chess)}) >= 3

\* the half-move clock: the moves since the last pawn move (no move here captures)
chessHalfMoves(chess) ==
  Len(chess) - CHOOSE i \in 0..Len(chess) :
                 /\ i = 0 \/ chess[i] \in {"f2f3", "g2g4", "e7e5"}
                 /\ \A j \in (i + 1)..Len(chess) : chess[j] \notin {"f2f3", "g2g4", "e7e5"}

\* chess.isDraw(): fifty moves without a pawn move, or a threefold repetition
\* (stalemate and insufficient material cannot arise from these moves)
chessIsDraw(chess) == chessHalfMoves(chess) >= 100 \/ chessIsThreefoldRepetition(chess)

\* chess.isGameOver()
chessIsGameOver(chess) == chessIsCheckmate(chess) \/ chessIsDraw(chess)

\* whether chess.move({ from, to, promotion }) accepts m: the piece stands on `from`,
\* the way is clear, and the mover's king is not left in check (the f-pawn is pinned
\* by a queen on h4).  A drawn game may be played on; a mated side has no move.
chessLegal(chess, m) ==
  LET b == chessBoard(chess)
      white == chessTurn(chess) = "w" /\ ~chessIsCheck(chess)
      black == chessTurn(chess) = "b"
  IN CASE m = "f2f3" -> white /\ ~b.f3 /\ ~b.Nf3 /\ ~b.Qh4
       [] m = "g2g4" -> white /\ ~b.g4
       [] m = "g1f3" -> white /\ ~b.Nf3 /\ ~b.f3
       [] m = "f3g1" -> white /\ b.Nf3
       [] m = "e7e5" -> black /\ ~b.e5
       [] m = "d8h4" -> black /\ ~b.Qh4 /\ b.e5 /\ ~b.Nf6
       [] m = "g8f6" -> black /\ ~b.Nf6
       [] m = "f6g8" -> black /\ b.Nf6

\* rooms.get(roomId) of a room that is not in the registry
NoRoom == [players |-> <<>>, chess |-> <<"-">>, chat |-> <<>>]

\* { players: [], chess: new Chess(), chat: [] }
NewRoom == [players |-> <<>>, chess |-> Chess, chat |-> <<>>]

NewSocket == [connected |-> TRUE, roomId |-> undefined, playerColor |-> undefined]

NoRequest == [type |-> "", socket |-> "", roomId |-> "", move |-> ""]

\* socket.emit(event, data) and io.to(roomId).emit(event, data)
ToSocket(id, event, data) == [to |-> <<"socket", id>>, event |-> event, data |-> data]
ToRoom(roomId, event, data) == [to |-> <<"room", roomId>>, event |-> event, data |-> data]

\* room.players.find((p) => p.id === id): the index of the first such player, 0 if none
FindPlayer(players, id) ==
  IF \E i \in DOMAIN players : players[i].id = id
    THEN CHOOSE i \in DOMAIN players :
           players[i].id = id /\ \A j \in DOMAIN players : players[j].id = id => i <= j
    ELSE 0

\* room.players.filter((p) => p.id !== id)
WithoutPlayer(players, id) == SelectSeq(players, LAMBDA pl : pl.id # id)

ServerInit ==
  /\ rooms = [r \in RoomIds |-> NoRoom]
  /\ sockets = [id \in SocketIds |-> NewSocket]
  /\ request = NoRequest
  /\ emitted = <<>>
  /\ handled = 0
  /\ running = TRUE

-----------------------------------------------------------------------------

Init ==
  /\ heap = <<EmptyCaptured, EmptyCaptured>>
  /\ state = createInitialState(1)
  /\ prevState = createInitialState(1)
  /\ prevValue = valueOf(<<EmptyCaptured>>, createInitialState(1))
  /\ other = createInitialState(2)
  /\ lastCall = NoCall
  /\ replay = null
  /\ calls = <<>>
  /\ free = 0
  /\ ServerInit
  /\ stack = <<>>

\* the caller takes the result r of executeMove(state, move, promotionOverride) as its
\* current state and keeps the state it passed
Return(move, promotionOverride, r) ==
  /\ heap' = r.heap
  /\ state' = r.nextState
  /\ prevState' = state
  /\ prevValue' = valueOf(heap, state)
  /\ lastCall' = [move |-> move, promotionOverride |-> promotionOverride,
                  result |-> valueOf(r.heap, r.nextState)]
  /\ replay' = null
  /\ calls' = Append(calls, CallOf(move, promotionOverride))
  /\ other' = other
  /\ UNCHANGED <<server, control>>

Execute(move, promotionOverride) ==
  Return(move, promotionOverride, executeMove(heap, state, move, promotionOverride))

\* the candidate of `moves` that a book ply asks for
BookMove(moves, ply) ==
  \E i \in DOMAIN moves :
    /\ moves[i].to = ply.to
    /\ Execute(moves[i], ply.promotionOverride)

\* the next move of a book line, picked from getLegalMoves
PlayBook ==
  \E l \in Lines :
    /\ Len(l) > Len(calls)
    /\ IsPrefix(calls, l)
    /\ BookMove(getLegalMoves(state, l[Len(calls) + 1].from), l[Len(calls) + 1])
    /\ free' = free

\* a candidate of `moves` that no book line continues with, and a promotion choice
FreeMove(moves) ==
  \E i \in DOMAIN moves : \E promo \in Overrides(moves[i]) :
    /\ ~OnBook(Append(calls, CallOf(moves[i], promo)))
    /\ Execute(moves[i], promo)

\* any other legal move of the side to move
PlayFree ==
  /\ free < MaxFree
  /\ \E pos \in OwnSquares(state) : FreeMove(getLegalMoves(state, pos))
  /\ free' = free + 1

Next == PlayBook \/ PlayFree

Spec == Init /\ [][Next]_vars

-----------------------------------------------------------------------------
(* Other things a caller of the engine can do with the states it holds.     *)

\* the caller reads the result r of the second call; its current state stays the first result
Replayed(r) ==
  /\ heap' = r.heap
  /\ replay' = valueOf(r.heap, r.nextState)
  /\ UNCHANGED <<state, prevState, prevValue, lastCall, calls, free, other>>
  /\ UNCHANGED <<server, control>>

\* a second executeMove call with the arguments of the last one: the retained
\* snapshot and the same move
ReplayMove ==
  /\ lastCall # NoCall
  /\ replay = null
  /\ Replayed(executeMove(heap, prevState, lastCall.move, lastCall.promotionOverride))

\* candidates the generator proposes and getLegalMoves drops, and a pawn sent three
\* rows ahead from its starting row
UncheckedMoves(gameState) ==
  UNION {
    LET board == gameState.board
        piece == board[p.row][p.col]
        pseudo == getPseudoLegalMoves(board, p, gameState.castlingRights,
                                      gameState.enPassantTarget)
        legal == getLegalMoves(gameState, p)
        jump == IF piece.color = "w" THEN p.row - 3 ELSE p.row + 3
    IN {pseudo[i] : i \in {j \in DOMAIN pseudo : \A k \in DOMAIN legal : legal[k] # pseudo[j]}}
       \cup (IF piece.type = "p" /\ p.row = (IF piece.color = "w" THEN 6 ELSE 1)
               THEN {addMove(board, p, piece, jump, p.col)}
               ELSE {})
    : p \in OwnSquares(gameState)}

InLegalMoves(gameState, move) ==
  \E i \in DOMAIN getLegalMoves(gameState, move.from) :
    getLegalMoves(gameState, move.from)[i] = move

\* executeMove called with a move that getLegalMoves(state, move.from) does not hold
ExecuteUnchecked ==
  /\ free < MaxFree
  /\ \E move \in UncheckedMoves(state) : Execute(move, undefined)
  /\ free' = free + 1

\* a candidate of `moves` executed with any piece type as promotionOverride
OverrideMove(moves) ==
  \E i \in DOMAIN moves : \E promo \in PieceType : Execute(moves[i], promo)

\* executeMove called with a legal move and a promotionOverride, whatever the move is
ExecuteOverride ==
  /\ free < MaxFree
  /\ \E pos \in OwnSquares(state) : OverrideMove(getLegalMoves(state, pos))
  /\ free' = free + 1

SpecOverride == Init /\ [][PlayBook \/ ExecuteOverride]_vars

SpecReplay == Init /\ [][PlayBook \/ ReplayMove]_vars

SpecUnchecked == Init /\ [][PlayBook \/ ExecuteUnchecked]_vars

-----------------------------------------------------------------------------
(* The handlers of the server, one action per event.                        *)

\* what a handler leaves behind: the registry, the sockets and its emissions
Handled(req, newRooms, newSockets, out) ==
  /\ running
  /\ running' = TRUE
  /\ handled' = handled + 1
  /\ request' = req
  /\ rooms' = newRooms
  /\ sockets' = newSockets
  /\ emitted' = out
  /\ UNCHANGED <<engine, control>>

\* mutant: a third player is let in
RoomFull_ThreeSeats(room) == Len(room.players) >= 3

\* the room full check of 'join-room'
RoomFull(room) == Len(room.players) >= 2

\* socket.on('join-room', (roomId) => ...)
JoinRoom(id, roomId) ==
  LET req == [type |-> "join-room", socket |-> id, roomId |-> roomId, move |-> ""]
      room == IF rooms[roomId] = NoRoom THEN NewRoom ELSE rooms[roomId]
      color == IF Len(room.players) = 0 THEN "w" ELSE "b"
      players == Append(room.players, [id |-> id, color |-> color])
  IN /\ sockets[id].connected
     /\ IF RoomFull(room)
          THEN Handled(req, [rooms EXCEPT ![roomId] = room], sockets,
                       <<ToSocket(id, "room-full", "")>>)
          ELSE Handled(req,
                       [rooms EXCEPT ![roomId] = [room EXCEPT !.players = players]],
                       [sockets EXCEPT ![id].roomId = roomId, ![id].playerColor = color],
                       <<ToSocket(id, "role-assigned", color),
                         IF Len(players) = 2
                           THEN ToRoom(roomId, "game-start", "")
                           ELSE ToSocket(id, "waiting-for-opponent", "")>>)

\* mutant: every finished game has a winner
GameOverResult_NoDraw(chess) == Opponent(chessTurn(chess))

\* mutant: the result names the side to move, the one that was mated
GameOverResult_SideToMove(chess) ==
  IF chessIsCheckmate(chess) THEN chessTurn(chess) ELSE "draw"

\* the `result` of 'game-over': the winner is the one who just moved
GameOverResult(chess) ==
  IF chessIsCheckmate(chess) THEN Opponent(chessTurn(chess)) ELSE "draw"

\* an Error leaves a listener: nothing in the file catches it (no try/catch, no
\* 'uncaughtException' handler), so the process ends.  The registry and the
\* connections go with it, nothing is emitted and no later event is handled.
Crashed(req) ==
  /\ running
  /\ running' = FALSE
  /\ handled' = handled + 1
  /\ request' = req
  /\ rooms' = [r \in RoomIds |-> NoRoom]
  /\ sockets' = [id \in SocketIds |-> [NewSocket EXCEPT !.connected = FALSE]]
  /\ emitted' = <<>>
  /\ UNCHANGED <<engine, control>>

\* socket.on('move', ({ roomId, from, to, promotion }) => ...); `throws` is whether
\* chess.move raises an error for an illegal move (as chess.js does from 1.0.0 on)
\* or returns null (as it did before)
Move(id, roomId, m) ==
  LET req == [type |-> "move", socket |-> id, roomId |-> roomId, move |-> m]
      room == rooms[roomId]
      chess == room.chess
      player == FindPlayer(room.players, id)
      moved == Append(chess, m)
  IN /\ sockets[id].connected
     /\ IF room = NoRoom
          THEN Handled(req, rooms, sockets, <<>>)
          ELSE IF player = 0 \/ room.players[player].color # chessTurn(chess)
            THEN Handled(req, rooms, sockets,
                         <<ToSocket(id, "invalid-move", "Not your turn")>>)
          ELSE IF ~chessLegal(chess, m)
            THEN \E throws \in BOOLEAN :
                   IF throws
                     THEN Crashed(req)
                     ELSE Handled(req, rooms, sockets,
                                  <<ToSocket(id, "invalid-move", "Illegal move")>>)
          ELSE Handled(req, [rooms EXCEPT ![roomId].chess = moved], sockets,
                       <<ToRoom(roomId, "move-made", m)>>
                       \o (IF chessIsGameOver(moved)
                             THEN <<ToRoom(roomId, "game-over", GameOverResult(moved))>>
                             ELSE <<>>))

\* socket.on('chat-message', ({ roomId, message }) => ...); the timestamp is left out
ChatMessage(id, roomId, message) ==
  LET req == [type |-> "chat-message", socket |-> id, roomId |-> roomId, move |-> ""]
      room == rooms[roomId]
      player == FindPlayer(room.players, id)
      color == room.players[player].color
      chatMsg == [sender |-> IF color = "w" THEN "White" ELSE "Black",
                  color |-> color, message |-> message]
  IN /\ sockets[id].connected
     /\ IF room = NoRoom \/ player = 0
          THEN Handled(req, rooms, sockets, <<>>)
          ELSE /\ Len(room.chat) < MaxChat
               /\ Handled(req, [rooms EXCEPT ![roomId].chat = Append(room.chat, chatMsg)],
                          sockets, <<ToRoom(roomId, "chat-message", message)>>)

\* socket.on('disconnect', () => ...)
Disconnect(id) ==
  LET req == [type |-> "disconnect", socket |-> id, roomId |-> "", move |-> ""]
      roomId == sockets[id].roomId
      gone == [sockets EXCEPT ![id].connected = FALSE]
      players == WithoutPlayer(rooms[roomId].players, id)
  IN /\ sockets[id].connected
     /\ IF roomId = undefined \/ rooms[roomId] = NoRoom
          THEN Handled(req, rooms, gone, <<>>)
          ELSE IF Len(players) > 0
            THEN Handled(req, [rooms EXCEPT ![roomId].players = players], gone,
                         <<ToRoom(roomId, "opponent-disconnected", "")>>)
          ELSE Handled(req, [rooms EXCEPT ![roomId] = NoRoom], gone, <<>>)

\* the events of three sockets and two rooms, in any order, MaxEvents of them
ServerNext ==
  \/ \E id \in SocketIds : \E roomId \in RoomIds :
       handled < MaxEvents /\ JoinRoom(id, roomId)
  \/ \E id \in SocketIds : \E roomId \in RoomIds : \E m \in Requests :
       handled < MaxEvents /\ Move(id, roomId, m)
  \/ \E id \in SocketIds : \E roomId \in RoomIds :
       handled < MaxEvents /\ ChatMessage(id, roomId, "hi")
  \/ \E id \in SocketIds :
       handled < MaxEvents /\ Disconnect(id)

\* the events of one game: two sockets join one room and send moves, legal or not
GameNext ==
  \/ \E id \in Players :
       handled < MaxGameEvents /\ JoinRoom(id, Table)
  \/ \E id \in Players : \E m \in Requests \cup Shuffle :
       handled < MaxGameEvents /\ Move(id, Table, m)

\* no GameState is held: the server process plays on chess.js and never creates one
NoEngine ==
  /\ heap = <<>>
  /\ state = null
  /\ prevState = null
  /\ prevValue = null
  /\ other = null
  /\ lastCall = NoCall
  /\ replay = null
  /\ calls = <<>>
  /\ free = 0

InitServer == NoEngine /\ ServerInit /\ stack = <<>>

SpecServer == InitServer /\ [][ServerNext]_vars

SpecGame == InitServer /\ [][GameNext]_vars

-----------------------------------------------------------------------------
(* The calls between the functions of src/utils/chessLogic.ts.  A frame is  *)
(* a call in progress: the function, where its body stands (pc), how far    *)
(* its loop has come (i), and for the generator whether it was called with  *)
(* all castling rights false and a null en-passant target (off).  What a    *)
(* test on the board or on a returned value yields is left open: a body     *)
(* takes either branch.                                                     *)

\* the squares the loops `for r < 8, for c < 8` visit
BoardSquares == 64

\* the candidates of one generator call that getLegalMoves loops over
MaxMoves == 2

Frame(fn, pc, off) == [fn |-> fn, pc |-> pc, i |-> 0, off |-> off]

Top == stack[Len(stack)]
Callers == SubSeq(stack, 1, Len(stack) - 1)

\* the body moves on to pc, with loop index i
Goto(pc, i) ==
  /\ stack' = Append(Callers, [Top EXCEPT !.pc = pc, !.i = i])
  /\ UNCHANGED <<engine, server>>

\* the body calls a function and will resume at pc, with loop index i
Call(frame, pc, i) ==
  /\ stack' = Append(Append(Callers, [Top EXCEPT !.pc = pc, !.i = i]), frame)
  /\ UNCHANGED <<engine, server>>

\* the body returns to its caller
Ret ==
  /\ stack' = Callers
  /\ UNCHANGED <<engine, server>>

Running(fn) == stack # <<>> /\ Top.fn = fn

\* getPseudoLegalMoves: loops over the offset tables and along rays, calls nothing
StepGetPseudoLegalMoves ==
  /\ Running("getPseudoLegalMoves")
  /\ Ret

\* mutant: the generator is given the rights and the target of the caller's state
StepIsSquareAttacked_StateRights ==
  /\ Running("isSquareAttacked")
  /\ CASE Top.pc = "scan" ->
            IF Top.i < BoardSquares
              THEN \/ Goto("scan", Top.i + 1)
                   \/ Call(Frame("getPseudoLegalMoves", "body", FALSE), "moves", Top.i)
              ELSE Ret
       [] Top.pc = "moves" ->
            \/ Ret
            \/ Goto("scan", Top.i + 1)

\* isSquareAttacked: for every square holding a piece of attackerColor, the
\* generator's moves with the rights off; true at the first one that reaches pos
StepIsSquareAttacked ==
  /\ Running("isSquareAttacked")
  /\ CASE Top.pc = "scan" ->
            IF Top.i < BoardSquares
              THEN \/ Goto("scan", Top.i + 1)
                   \/ Call(Frame("getPseudoLegalMoves", "body", TRUE), "moves", Top.i)
              ELSE Ret
       [] Top.pc = "moves" ->
            \/ Ret
            \/ Goto("scan", Top.i + 1)

\* isKingInCheck: find the king (true when there is none), then isSquareAttacked
StepIsKingInCheck ==
  /\ Running("isKingInCheck")
  /\ CASE Top.pc = "find" ->
            \/ Ret
            \/ Call(Frame("isSquareAttacked", "scan", FALSE), "attacked", 0)
       [] Top.pc = "attacked" -> Ret

\* getLegalMoves: the generator's candidates with the state's rights and target,
\* then for each: isKingInCheck on the board after it, and for a castling that
\* passes, isKingInCheck on the board as it is and isSquareAttacked on the middle square
StepGetLegalMoves ==
  /\ Running("getLegalMoves")
  /\ CASE Top.pc = "start" ->
            Call(Frame("getPseudoLegalMoves", "body", FALSE), "pseudoMoves", 0)
       [] Top.pc = "pseudoMoves" ->
            \E n \in 0..MaxMoves : Goto("loop", n)
       [] Top.pc = "loop" ->
            IF Top.i > 0
              THEN Call(Frame("isKingInCheck", "find", FALSE), "simulated", Top.i)
              ELSE Ret
       [] Top.pc = "simulated" ->
            \/ Goto("loop", Top.i - 1)
            \/ Call(Frame("isKingInCheck", "find", FALSE), "castling", Top.i)
       [] Top.pc = "castling" ->
            \/ Goto("loop", Top.i - 1)
            \/ Call(Frame("isSquareAttacked", "scan", FALSE), "middle", Top.i)
       [] Top.pc = "middle" ->
            Goto("loop", Top.i - 1)

\* executeMove: the board update calls nothing; then isKingInCheck for the next
\* player and the scan for a legal move, getLegalMoves on each of their squares until
\* one has a move
StepExecuteMove ==
  /\ Running("executeMove")
  /\ CASE Top.pc = "update" ->
            Call(Frame("isKingInCheck", "find", FALSE), "scan", 0)
       [] Top.pc = "scan" ->
            IF Top.i < BoardSquares
              THEN \/ Goto("scan", Top.i + 1)
                   \/ Call(Frame("getLegalMoves", "start", FALSE), "legalMoves", Top.i)
              ELSE Goto("history", Top.i)
       [] Top.pc = "legalMoves" ->
            \/ Goto("history", Top.i)
            \/ Goto("scan", Top.i + 1)
       [] Top.pc = "history" -> Ret

\* a caller of the engine calls one of its two operations
CallEngine ==
  /\ stack = <<>>
  /\ \/ stack' = <<Frame("getLegalMoves", "start", FALSE)>>
     \/ stack' = <<Frame("executeMove", "update", FALSE)>>
  /\ UNCHANGED <<engine, server>>

\* the call in progress takes its next step
StepEngine ==
  \/ StepExecuteMove
  \/ StepGetLegalMoves
  \/ StepIsKingInCheck
  \/ StepIsSquareAttacked
  \/ StepGetPseudoLegalMoves

\* the engine is synchronous: a call in progress runs on
InitCalls == NoEngine /\ ServerInit /\ stack = <<>>

NextCalls == CallEngine \/ StepEngine

SpecCalls == InitCalls /\ [][NextCalls]_vars /\ WF_vars(StepEngine)

-----------------------------------------------------------------------------
(* The rules of chess the claims speak of, stated without the engine.       *)

Abs(x) == IF x < 0 THEN -x ELSE x
Sign(x) == IF x > 0 THEN 1 ELSE IF x < 0 THEN -1 ELSE 0

\* the squares strictly between p and t, on a common row, column or diagonal, are empty
ClearBetween(board, p, t) ==
  LET dr == Sign(t.row - p.row)
      dc == Sign(t.col - p.col)
      n == IF Abs(t.row - p.row) > Abs(t.col - p.col)
             THEN Abs(t.row - p.row) ELSE Abs(t.col - p.col)
  IN \A k \in 1..(n - 1) : board[p.row + k * dr][p.col + k * dc] = null

\* the piece on p could capture on t by its movement rule
Attacks(board, p, t) ==
  LET piece == board[p.row][p.col]
      dr == t.row - p.row
      dc == t.col - p.col
      straight == dr = 0 \/ dc = 0
      diagonal == Abs(dr) = Abs(dc)
  IN /\ p # t
     /\ CASE piece.type = "p" -> dr = (IF piece.color = "w" THEN -1 ELSE 1) /\ Abs(dc) = 1
          [] piece.type = "n" -> {Abs(dr), Abs(dc)} = {1, 2}
          [] piece.type = "k" -> Abs(dr) <= 1 /\ Abs(dc) <= 1
          [] piece.type = "r" -> straight /\ ClearBetween(board, p, t)
          [] piece.type = "b" -> diagonal /\ ClearBetween(board, p, t)
          [] piece.type = "q" -> (straight \/ diagonal) /\ ClearBetween(board, p, t)
          [] OTHER -> FALSE

Attacked(board, t, by) ==
  \E p \in Squares : board[p.row][p.col].color = by /\ Attacks(board, p, t)

KingAttacked(board, color) ==
  \E k \in Kings(board, color) : Attacked(board, k, Opponent(color))

NoLegalMove(gameState) ==
  \A p \in OwnSquares(gameState) : getLegalMoves(gameState, p) = <<>>

TwoSquareAdvance(m) ==
  m.piece.type = "p" /\ m.from.col = m.to.col /\ Abs(m.to.row - m.from.row) = 2

\* the square a two-square advance passes over
Skipped(m) == Position((m.from.row + m.to.row) \div 2, m.from.col)

Sides == {"kingSide", "queenSide"}

-----------------------------------------------------------------------------
(* The claims.                                                              *)

\* C1: after a move taken from getLegalMoves for a piece of the side to move is
\* executed, the king of the side that made it is not attacked on the new board
\* (castling and en passant included).
C1_MoverKingSafe ==
  lastCall # NoCall => ~KingAttacked(state.board, Opponent(state.turn))

\* C1 witness: a castling move was executed and the castled king is not attacked.
C1_Witness ==
  /\ lastCall # NoCall
  /\ lastCall.move.isCastling
  /\ state.board[lastCall.move.to.row][lastCall.move.to.col].type = "k"
  /\ ~KingAttacked(state.board, Opponent(state.turn))

\* C2: executeMove called with a move that getLegalMoves(state, move.from) does not
\* hold is rejected: no successor state, every field is left as it was.
C2_IllegalMoveRejected ==
  (lastCall # NoCall /\ ~InLegalMoves(prevState, lastCall.move))
    => valueOf(heap, state) = prevValue

\* C3: getLegalMoves(state, pos) is the empty list whenever pos is empty or holds a
\* piece whose color is not state.turn.
C3_ForeignSquareEmpty ==
  \A pos \in Squares :
    state.board[pos.row][pos.col].color # state.turn => getLegalMoves(state, pos) = <<>>

\* C4: executeMove never modifies the state it is given: after the call every field
\* of prevState, capturedPieces.w and capturedPieces.b included, holds what it held
\* before the call.
C4_PrevStateUnmodified ==
  valueOf(heap, prevState) = prevValue

\* C5: executeMove is deterministic: a second call with the same retained state and
\* the same move returns a result equal in every field, capturedPieces included, to
\* what the first call returned.
C5_ReplayEqual ==
  replay # null => replay = lastCall.result

\* C6: castling rights are monotonic: once a right is false in some state it is
\* false in every later state.
C6_RightsMonotonic ==
  [][\A c \in Color : \A side \in Sides :
       ~state.castlingRights[c][side] => ~state'.castlingRights[c][side]]_vars

\* C6 witness: a right that was false before a call is false after it, while the
\* other color still holds a right.
C6_Witness ==
  /\ lastCall # NoCall
  /\ ~prevState.castlingRights.w.kingSide
  /\ ~state.castlingRights.w.kingSide
  /\ state.castlingRights.b.kingSide

\* C7: enPassantTarget is non-null exactly when the move just executed was a pawn
\* advance of two rows, and then it is the square of the pawn's column midway between
\* the rows of from and to; in the initial state it is null.
C7_EnPassantTarget ==
  IF lastCall = NoCall
    THEN state.enPassantTarget = null
    ELSE /\ (state.enPassantTarget # null) <=> TwoSquareAdvance(lastCall.move)
         /\ TwoSquareAdvance(lastCall.move) =>
              /\ state.enPassantTarget.col = lastCall.move.from.col
              /\ 2 * state.enPassantTarget.row = lastCall.move.from.row + lastCall.move.to.row

\* C7 witness: black has just advanced a pawn two rows and the target is on row 2.
C7_Witness ==
  /\ lastCall # NoCall
  /\ lastCall.move.piece = Piece("p", "b")
  /\ TwoSquareAdvance(lastCall.move)
  /\ state.enPassantTarget = Position(2, lastCall.move.from.col)

\* C8 as stated: after a two-square pawn advance enPassantTarget is the skipped
\* square, and after one further move, whatever it is, enPassantTarget is null.
C8_ClearedByAnyMove ==
  LET h == state.history
      n == Len(h)
  IN /\ (n >= 1 /\ TwoSquareAdvance(h[n])) => state.enPassantTarget = Skipped(h[n])
     /\ (n >= 2 /\ TwoSquareAdvance(h[n - 1])) => state.enPassantTarget = null

\* C8 amended: after a two-square pawn advance enPassantTarget is the skipped square,
\* and after one further move it is null unless that move is itself a two-square pawn
\* advance, whose skipped square it then is; the earlier target never survives.
C8_ClearedOrReplaced ==
  LET h == state.history
      n == Len(h)
  IN /\ (n >= 1 /\ TwoSquareAdvance(h[n])) => state.enPassantTarget = Skipped(h[n])
     /\ (n >= 2 /\ TwoSquareAdvance(h[n - 1])) =>
          /\ state.enPassantTarget # Skipped(h[n - 1])
          /\ state.enPassantTarget = (IF TwoSquareAdvance(h[n]) THEN Skipped(h[n]) ELSE null)

\* C8 witness: a two-square advance was answered by an en-passant capture and the
\* target is null again.
C8_Witness ==
  LET h == state.history
      n == Len(h)
  IN /\ n >= 2
     /\ TwoSquareAdvance(h[n - 1])
     /\ prevState.enPassantTarget = Skipped(h[n - 1])
     /\ h[n].isEnPassant
     /\ state.enPassantTarget = null

\* C9: isCheckmate iff the side to move has no legal move and its king is attacked,
\* isStalemate iff it has no legal move and its king is not attacked, isCheck iff its
\* king is attacked; so the two are never both true and isCheckmate implies isCheck.
C9_TerminalFlags ==
  LET attacked == KingAttacked(state.board, state.turn)
      stuck == NoLegalMove(state)
  IN /\ state.isCheck <=> attacked
     /\ state.isCheckmate <=> (stuck /\ attacked)
     /\ state.isStalemate <=> (stuck /\ ~attacked)
     /\ ~(state.isCheckmate /\ state.isStalemate)
     /\ state.isCheckmate => state.isCheck

\* C9 witness: a stalemate: the side to move has pieces, no legal move, and its king
\* is not attacked.
C9_Witness ==
  /\ state.isStalemate
  /\ ~state.isCheckmate
  /\ ~state.isCheck
  /\ NoLegalMove(state)
  /\ ~KingAttacked(state.board, state.turn)

\* C10: f2-f3, e7-e5, g2-g4, Qd8-h4, each taken from getLegalMoves, end in a state
\* with isCheckmate, isCheck, not isStalemate, white to move and no legal move on any
\* white square.
C10_FoolsMate ==
  calls = FoolsMate =>
    /\ state.isCheckmate
    /\ state.isCheck
    /\ ~state.isStalemate
    /\ state.turn = "w"
    /\ \A p \in Squares :
         state.board[p.row][p.col].color = "w" => getLegalMoves(state, p) = <<>>

\* C10 witness: the four moves were played and the queen stands on h4.
C10_Witness ==
  /\ calls = FoolsMate
  /\ state.board[4][7] = Piece("q", "b")
  /\ state.isCheckmate
  /\ state.history[4].san = "Qh4#"

\* the legal moves of the pieces of `color`, each counted once: (square, index in the
\* list getLegalMoves returns for it)
MovesOf(gameState, color) ==
  UNION {{<<p, i>> : i \in 1..Len(getLegalMoves(gameState, p))} :
           p \in {q \in Squares : gameState.board[q.row][q.col].color = color}}

\* the two-ply sequences: a legal move of the side to move, executed, then a legal
\* move of the other side in the resulting state
TwoPly(h, gameState) ==
  UNION {LET after == executeMove(h, gameState, getLegalMoves(gameState, m[1])[m[2]],
                                  undefined).nextState
         IN {<<m, n>> : n \in MovesOf(after, after.turn)}
         : m \in MovesOf(gameState, gameState.turn)}

\* C11: from the initial state getLegalMoves over all white squares returns 20 moves
\* in total, and there are 400 two-ply sequences (each white move executed, each black
\* move of the resulting state counted).
C11_Perft ==
  calls = <<>> =>
    /\ Cardinality(MovesOf(state, "w")) = 20
    /\ Cardinality(TwoPly(heap, state)) = 400

\* C11 witness: a first white move was executed from the initial state, where white had
\* 20 moves, and black has 20 moves in the state it led to.
C11_Witness ==
  /\ Len(calls) = 1
  /\ prevState = createInitialState(1)
  /\ Cardinality(MovesOf(prevState, "w")) = 20
  /\ Cardinality(MovesOf(state, "b")) = 20

\* C12: every castling move getLegalMoves returns for the side to move starts from a
\* board on which the mover's king is not attacked and the square the king crosses is
\* not attacked by any opposing piece, a pawn attacking both squares diagonally in
\* front of it whether or not they are empty.
C12_CastlingTransitSafe ==
  \A p \in Kings(state.board, state.turn) :
    \A move \in {getLegalMoves(state, p)[i] : i \in DOMAIN getLegalMoves(state, p)} :
      move.isCastling =>
        /\ ~KingAttacked(state.board, state.turn)
        /\ ~Attacked(state.board,
                     Position(move.from.row, (move.from.col + move.to.col) \div 2),
                     Opponent(state.turn))

\* a pawn move landing on the last rank
LandsOnLastRank(move) ==
  move.piece.type = "p" /\ (move.to.row = 0 \/ move.to.row = 7)

\* C13: after a pawn move landing on the last rank is executed, the destination square
\* holds a piece of the mover's color whose type is promotionOverride if one was given,
\* else move.promotion, else queen.
C13_PromotionPiece ==
  (lastCall # NoCall /\ LandsOnLastRank(lastCall.move)) =>
    state.board[lastCall.move.to.row][lastCall.move.to.col] =
      Piece(IF lastCall.promotionOverride # undefined THEN lastCall.promotionOverride
            ELSE IF lastCall.move.promotion # undefined THEN lastCall.move.promotion
            ELSE "q",
            lastCall.move.piece.color)

\* C13 witness: a pawn capturing onto the last rank was executed with a knight
\* override and a knight of the mover's color stands there.
C13_Witness ==
  /\ lastCall # NoCall
  /\ LandsOnLastRank(lastCall.move)
  /\ lastCall.promotionOverride = "n"
  /\ state.board[lastCall.move.to.row][lastCall.move.to.col] = Piece("n", "w")

\* C14: when a promotion move is executed with an explicit promotionOverride, the
\* entry appended to history names the override piece, in its promotion field and in
\* the promotion suffix of its notation, which is the piece placed on the board.
C14_HistoryRecordsOverride ==
  (lastCall # NoCall /\ LandsOnLastRank(lastCall.move)
     /\ lastCall.promotionOverride # undefined) =>
    LET entry == state.history[Len(state.history)]
        to == lastCall.move.to
    IN /\ entry.promotion = lastCall.promotionOverride
       /\ entry.promotion = state.board[to.row][to.col].type
       /\ entry.san = getSan([lastCall.move EXCEPT !.promotion = lastCall.promotionOverride],
                             prevState.board, state.isCheck, state.isCheckmate)

\* C15: executeMove called with a promotionOverride that is not queen, rook, bishop
\* or knight (a pawn or a king) is rejected: no successor state, so no such piece is
\* placed on the board.
C15_InvalidPromotionRejected ==
  (lastCall # NoCall /\ lastCall.promotionOverride \in {"p", "k"}) =>
    /\ valueOf(heap, state) = prevValue
    /\ state.board[lastCall.move.to.row][lastCall.move.to.col].type
         # lastCall.promotionOverride

\* algebraic names, as the claims spell them
FileName(col) ==
  CASE col = 0 -> "a" [] col = 1 -> "b" [] col = 2 -> "c" [] col = 3 -> "d"
    [] col = 4 -> "e" [] col = 5 -> "f" [] col = 6 -> "g" [] col = 7 -> "h"
RankName(row) ==
  CASE row = 0 -> "8" [] row = 1 -> "7" [] row = 2 -> "6" [] row = 3 -> "5"
    [] row = 4 -> "4" [] row = 5 -> "3" [] row = 6 -> "2" [] row = 7 -> "1"
PieceLetter(t) ==
  CASE t = "p" -> "" [] t = "n" -> "N" [] t = "b" -> "B"
    [] t = "r" -> "R" [] t = "q" -> "Q" [] t = "k" -> "K"

\* the notation of a move that does not castle, with `suffix` for its promotion
Notation(entry, suffix, check, mate) ==
  PieceLetter(entry.piece.type)
  \o (IF entry.captured # null \/ entry.isEnPassant
        THEN (IF entry.piece.type = "p" THEN FileName(entry.from.col) ELSE "") \o "x"
        ELSE "")
  \o FileName(entry.to.col) \o RankName(entry.to.row)
  \o suffix
  \o (IF mate THEN "#" ELSE IF check THEN "+" ELSE "")

\* C16: the notation stored with the move appended to history is "O-O" for castling
\* toward the higher column and "O-O-O" otherwise; for any other move it is the
\* uppercase piece letter (none for a pawn), "x" for a capture or en passant (after the
\* origin file letter for a pawn), the destination file letter and rank digit
\* (8 - row), "=" and a piece letter if the move promotes, then "#" if the resulting
\* state is checkmate, else "+" if it is check.
C16_Notation ==
  lastCall # NoCall =>
    LET entry == state.history[Len(state.history)]
    IN IF entry.isCastling
         THEN entry.san = (IF entry.to.col > entry.from.col THEN "O-O" ELSE "O-O-O")
         ELSE IF LandsOnLastRank(entry)
           THEN \E L \in {"Q", "R", "B", "N"} :
                  entry.san = Notation(entry, "=" \o L, state.isCheck, state.isCheckmate)
           ELSE entry.san = Notation(entry, "", state.isCheck, state.isCheckmate)

\* C16 witness: a queen captured with check and the entry reads "Qxd7+".
C16_Witness ==
  /\ lastCall # NoCall
  /\ state.isCheck
  /\ ~state.isCheckmate
  /\ state.history[Len(state.history)].captured = Piece("p", "b")
  /\ state.history[Len(state.history)].san = "Qxd7+"

\* the standard initial position, row 0 being black's back rank
StandardPosition ==
  LET back(color) == [c \in 0..7 |->
                        Piece(CASE c \in {0, 7} -> "r" [] c \in {1, 6} -> "n"
                                [] c \in {2, 5} -> "b" [] c = 3 -> "q" [] c = 4 -> "k",
                              color)]
      pawns(color) == [c \in 0..7 |-> Piece("p", color)]
      empty == [c \in 0..7 |-> null]
  IN [r \in 0..7 |->
        CASE r = 0 -> back("b") [] r = 1 -> pawns("b")
          [] r = 6 -> pawns("w") [] r = 7 -> back("w")
          [] OTHER -> empty]

\* what the claim says createInitialState() returns
IsInitialValue(v) ==
  /\ v.board = StandardPosition
  /\ v.turn = "w"
  /\ \A c \in Color : \A side \in Sides : v.castlingRights[c][side]
  /\ v.enPassantTarget = null
  /\ v.history = <<>>
  /\ v.capturedPieces = [w |-> <<>>, b |-> <<>>]
  /\ v.fullMoveNumber = 1
  /\ ~v.isCheck /\ ~v.isCheckmate /\ ~v.isStalemate

\* C17: createInitialState() returns the standard initial position with white to move,
\* all four castling rights, no en-passant target, empty history and captured lists,
\* fullMoveNumber 1 and the three flags false; and executing moves on one returned
\* state never changes the state (its board in particular) that a separate
\* createInitialState() call returned.
C17_InitialState ==
  /\ calls = <<>> => IsInitialValue(valueOf(heap, state))
  /\ IsInitialValue(valueOf(heap, other))

\* C17 witness: a capture was executed in the game played on the first state, and the
\* state of the separate call still holds the initial board and empty captured lists.
C17_Witness ==
  /\ lastCall # NoCall
  /\ lastCall.move.captured # null
  /\ valueOf(heap, state).capturedPieces # [w |-> <<>>, b |-> <<>>]
  /\ other.board = StandardPosition
  /\ valueOf(heap, other).capturedPieces = [w |-> <<>>, b |-> <<>>]

-----------------------------------------------------------------------------
(* The server.                                                              *)

\* the socket is a player of the room and has the color of the side to move
OwnsTurn(room, id) ==
  \E i \in DOMAIN room.players :
    room.players[i].id = id /\ room.players[i].color = chessTurn(room.chess)

\* the handler emitted the event, to anybody
Emits(out, event) == \E i \in DOMAIN out : out[i].event = event

\* the request the step handled may be applied to the game of the room it names
MayApply(req) ==
  /\ rooms[req.roomId] # NoRoom
  /\ OwnsTurn(rooms[req.roomId], req.socket)
  /\ chessLegal(rooms[req.roomId].chess, req.move)

\* the step answered 'invalid-move' to the sender and emitted nothing else
RefusedToSender(req, out) ==
  /\ Len(out) = 1
  /\ out[1].event = "invalid-move"
  /\ out[1].to = <<"socket", req.socket>>

\* C18: a 'move' request changes a room's game only if its sender is a player of the
\* room with the color of the side to move and the move is legal; any other 'move'
\* request leaves every room as it was, broadcasts no 'move-made', and is answered
\* with 'invalid-move' to the sender alone.
C18_MoveValidated ==
  [][request'.type = "move" =>
       IF MayApply(request')
         THEN \A r \in RoomIds : r # request'.roomId => rooms'[r] = rooms[r]
         ELSE /\ rooms' = rooms
              /\ ~Emits(emitted', "move-made")
              /\ RefusedToSender(request', emitted')]_vars

\* C19: whatever join-room and disconnect events came before, the two players of a
\* room are White, first, and Black, second: no room holds two players of one color.
C19_WhiteThenBlack ==
  \A r \in RoomIds :
    Len(rooms[r].players) = 2 =>
      /\ rooms[r].players[1].color = "w"
      /\ rooms[r].players[2].color = "b"

\* the socket joined the room: join-room put it on the room's player list
Joined(room, id) == \E i \in DOMAIN room.players : room.players[i].id = id

\* the players of the room other than the socket
Remaining(room, id) == {i \in DOMAIN room.players : room.players[i].id # id}

\* C20: when a socket disconnects, every room it joined is sent
\* 'opponent-disconnected' if another player remains in it, and is deleted from the
\* registry if none remains.
C20_DisconnectHandled ==
  [][request'.type = "disconnect" =>
       \A r \in RoomIds :
         (rooms[r] # NoRoom /\ Joined(rooms[r], request'.socket)) =>
           IF Remaining(rooms[r], request'.socket) # {}
             THEN \E i \in DOMAIN emitted' :
                    emitted'[i] = ToRoom(r, "opponent-disconnected", "")
             ELSE rooms'[r] = NoRoom]_vars

-----------------------------------------------------------------------------
(* The engine, continued.                                                   *)

\* C21: every executeMove flips turn and adds one to fullMoveNumber exactly when
\* the state it was given had black to move; after n moves from the initial state
\* turn is white iff n is even and fullMoveNumber = 1 + floor(n / 2).
C21_TurnAndMoveNumber ==
  /\ state.turn = (IF Len(calls) % 2 = 0 THEN "w" ELSE "b")
  /\ state.fullMoveNumber = 1 + (Len(calls) \div 2)
  /\ lastCall # NoCall =>
       /\ state.turn = Opponent(prevState.turn)
       /\ state.fullMoveNumber =
            prevState.fullMoveNumber + (IF prevState.turn = "b" THEN 1 ELSE 0)

\* C21 witness: after five moves black is to move in move 3, and after six white
\* would be in move 4: here the fifth move has just been made.
C21_Witness ==
  /\ Len(calls) = 5
  /\ state.turn = "b"
  /\ state.fullMoveNumber = 3
  /\ prevState.turn = "w"
  /\ prevState.fullMoveNumber = 3

\* the corner a castling right belongs to
HomeCorner(c, side) ==
  Position(IF c = "w" THEN 7 ELSE 0, IF side = "kingSide" THEN 7 ELSE 0)

\* the last move takes the right away, by the rules the claim lists; `was` is the
\* board the move was made on
Revokes(was, m, c, side) ==
  \/ m.piece = Piece("k", c)
  \/ m.piece.type = "r" /\ m.from = HomeCorner(c, side)
  \/ was[m.to.row][m.to.col].type = "r" /\ m.to = HomeCorner(c, side)

\* C22: after a legal move is executed a castling right is false exactly when it was
\* false before, or that color's king moved (castling included), or a rook left the
\* right's corner, or a rook was captured on it; any other right keeps its value.
C22_RightsAfterMove ==
  lastCall # NoCall =>
    \A c \in Color : \A side \in Sides :
      ~state.castlingRights[c][side] <=>
        (~prevValue.castlingRights[c][side]
           \/ Revokes(prevValue.board, lastCall.move, c, side))

\* C22 witness: a pawn took the rook on h8; black lost the king-side right by it
\* and keeps the queen-side one.
C22_Witness ==
  /\ lastCall # NoCall
  /\ lastCall.move.to = Position(0, 7)
  /\ lastCall.move.piece = Piece("p", "w")
  /\ prevValue.board[0][7] = Piece("r", "b")
  /\ prevValue.castlingRights.b.kingSide
  /\ ~state.castlingRights.b.kingSide
  /\ state.castlingRights.b.queenSide

\* the columns of the king's row a castling changes
CastlingColumns(m) == IF m.to.col = 6 THEN {4, 5, 6, 7} ELSE {0, 2, 3, 4}

\* C23: executing a castling move relocates king and rook in the one transition:
\* king-side the king stands on column 6 and the rook on column 5, columns 4 and 7
\* empty; queen-side the king on column 2 and the rook on column 3, columns 4 and 0
\* empty; every other square is as before.
C23_CastlingRelocates ==
  (lastCall # NoCall /\ lastCall.move.isCastling) =>
    LET m == lastCall.move
        row == m.from.row
        c == m.piece.color
    IN /\ m.to.col \in {2, 6}
       /\ state.board[row][4] = null
       /\ IF m.to.col = 6
            THEN /\ state.board[row][6] = Piece("k", c)
                 /\ state.board[row][5] = Piece("r", c)
                 /\ state.board[row][7] = null
            ELSE /\ state.board[row][2] = Piece("k", c)
                 /\ state.board[row][3] = Piece("r", c)
                 /\ state.board[row][0] = null
       /\ \A p \in Squares :
            (p.row # row \/ p.col \notin CastlingColumns(m)) =>
              state.board[p.row][p.col] = prevValue.board[p.row][p.col]

\* C23 witness: black has castled queen-side: king c8, rook d8, a8 and e8 empty.
C23_Witness ==
  /\ lastCall # NoCall
  /\ lastCall.move.isCastling
  /\ lastCall.move.to = Position(0, 2)
  /\ state.board[0][2] = Piece("k", "b")
  /\ state.board[0][3] = Piece("r", "b")
  /\ state.board[0][0] = null
  /\ state.board[0][4] = null

\* the squares of the board that hold a piece of the color
PiecesOf(board, c) == {p \in Squares : board[p.row][p.col].color = c}

\* a pawn stepping diagonally onto an empty square of board `was`: en passant
TakesEnPassant(was, m) ==
  m.piece.type = "p" /\ m.from.col # m.to.col /\ was[m.to.row][m.to.col] = null

\* the square whose piece the move captures on board `was`, null when it captures none
VictimSquare(was, m) ==
  IF TakesEnPassant(was, m) THEN Position(m.from.row, m.to.col)
  ELSE IF was[m.to.row][m.to.col] # null THEN m.to
  ELSE null

\* C24: an executed capture removes exactly one enemy piece and appends its type to
\* the captured list of that piece's color: the piece on the destination, or for en
\* passant the enemy pawn on (from.row, to.col), which becomes empty while the
\* capturing pawn stands on the target square, empty before; a move that captures
\* nothing leaves both captured lists as they were.
C24_CaptureRecorded ==
  lastCall # NoCall =>
    LET m == lastCall.move
        was == prevValue.board
        mover == m.piece.color
        enemy == Opponent(mover)
        v == VictimSquare(was, m)
        victim == was[v.row][v.col]
        lists == lastCall.result.capturedPieces
    IN /\ lists[mover] = prevValue.capturedPieces[mover]
       /\ Cardinality(PiecesOf(state.board, mover)) = Cardinality(PiecesOf(was, mover))
       /\ IF v = null
            THEN /\ lists[enemy] = prevValue.capturedPieces[enemy]
                 /\ PiecesOf(state.board, enemy) = PiecesOf(was, enemy)
            ELSE /\ victim.color = enemy
                 /\ lists[enemy] = Append(prevValue.capturedPieces[enemy], victim.type)
                 /\ PiecesOf(state.board, enemy) = PiecesOf(was, enemy) \ {v}
                 /\ state.board[m.to.row][m.to.col].color = mover
                 /\ TakesEnPassant(was, m) =>
                      /\ victim = Piece("p", enemy)
                      /\ state.board[v.row][v.col] = null
                      /\ state.board[m.to.row][m.to.col] = m.piece

\* C24 witness: a pawn has taken en passant: the pawn beside it is gone, the target
\* square holds the capturing pawn, and 'p' was appended to the list of the pawn's color.
C24_Witness ==
  /\ lastCall # NoCall
  /\ TakesEnPassant(prevValue.board, lastCall.move)
  /\ prevValue.board[lastCall.move.from.row][lastCall.move.to.col].type = "p"
  /\ state.board[lastCall.move.from.row][lastCall.move.to.col] = null
  /\ state.board[lastCall.move.to.row][lastCall.move.to.col] = lastCall.move.piece
  /\ Len(lastCall.result.capturedPieces[state.turn])
       = Len(prevValue.capturedPieces[state.turn]) + 1

\* the columns between the king and the rook of a castling side
Between(side) == IF side = "kingSide" THEN {5, 6} ELSE {1, 2, 3}

\* the king on pos may castle to the side, by the conditions the claim lists
MayCastle(gameState, pos, side) ==
  LET king == gameState.board[pos.row][pos.col]
      home == IF king.color = "w" THEN 7 ELSE 0
      corner == HomeCorner(king.color, side)
  IN /\ king.type = "k"
     /\ pos = Position(home, 4)
     /\ gameState.castlingRights[king.color][side]
     /\ \A c \in Between(side) : gameState.board[home][c] = null
     /\ gameState.board[corner.row][corner.col] = Piece("r", king.color)

\* every castling candidate of the list is one the conditions allow
CastlingAllowed(gameState, pos, moves) ==
  \A i \in DOMAIN moves :
    moves[i].isCastling =>
      /\ moves[i].from = pos
      /\ moves[i].to.row = pos.row
      /\ moves[i].to.col \in {2, 6}
      /\ MayCastle(gameState, pos, IF moves[i].to.col = 6 THEN "kingSide" ELSE "queenSide")

\* C25: a castling candidate is generated only for a king on column 4 of its home
\* row whose right for that side is true, with the squares between king and rook
\* empty and a rook of its color on the corner; getLegalMoves returns no castling
\* move when one of these fails.
C25_CastlingGenerated ==
  \A pos \in Squares :
    state.board[pos.row][pos.col] # null =>
      /\ CastlingAllowed(state, pos,
            getPseudoLegalMoves(state.board, pos, state.castlingRights, state.enPassantTarget))
      /\ state.board[pos.row][pos.col].type = "k" =>
            CastlingAllowed(state, pos, getLegalMoves(state, pos))

\* C25 witness: white's king-side castling is offered on e1, and its queen-side
\* castling is not, the right being true but b1, c1 or d1 occupied.
C25_Witness ==
  /\ state.turn = "w"
  /\ \E i \in DOMAIN getLegalMoves(state, Position(7, 4)) :
       /\ getLegalMoves(state, Position(7, 4))[i].isCastling
       /\ getLegalMoves(state, Position(7, 4))[i].to = Position(7, 6)
  /\ MayCastle(state, Position(7, 4), "kingSide")
  /\ state.castlingRights.w.queenSide
  /\ ~MayCastle(state, Position(7, 4), "queenSide")

\* C26: isSquareAttacked(board, target, attackerColor) is true if and only if some
\* piece of attackerColor could capture on target by its movement rule, whether the
\* target is empty or holds a piece of the other color: a pawn attacks the two
\* squares diagonally ahead of it and never a square straight ahead.
C26_AttackDetector ==
  \A by \in Color : \A t \in Squares :
    state.board[t.row][t.col].color # by =>
      (isSquareAttacked(state.board, t, by) <=> Attacked(state.board, t, by))

\* the functions on the stack, outermost first
Nesting == [j \in DOMAIN stack |-> stack[j].fn]

\* the generator has made no call, and where attack detection called it, it got all
\* rights false and a null target; no function is in progress twice
WellNested ==
  /\ \A j \in DOMAIN stack :
       stack[j].fn = "getPseudoLegalMoves" =>
         /\ j = Len(stack)
         /\ (j > 1 /\ stack[j - 1].fn = "isSquareAttacked") => stack[j].off
  /\ \A j, k \in DOMAIN stack : stack[j].fn = stack[k].fn => j = k

\* C27: every call of getLegalMoves and of executeMove terminates: attack detection
\* calls the generator with all castling rights false and a null en-passant target,
\* the generator never calls attack detection, and the calls never nest without
\* bound.
C27_CallsTerminate ==
  /\ [](WellNested /\ Len(stack) <= 5)
  /\ (stack # <<>>) ~> (stack = <<>>)

\* C27 witness: executeMove is looking for a legal move of the next player, and the
\* attack detection under it has called the generator, rights off.
C27_Witness ==
  /\ Nesting = <<"executeMove", "getLegalMoves", "isKingInCheck", "isSquareAttacked",
                 "getPseudoLegalMoves">>
  /\ stack[5].off
  /\ stack[4].i = BoardSquares - 1
  /\ stack[1].i = BoardSquares - 1

-----------------------------------------------------------------------------
(* The server, continued.                                                   *)

\* the step applied the request to the game of the room it names
Accepted(req) ==
  /\ req.type = "move"
  /\ rooms[req.roomId] # NoRoom
  /\ rooms'[req.roomId].chess = Append(rooms[req.roomId].chess, req.move)

\* C28: for every move the server accepts, 'move-made' is broadcast to the room, and
\* 'game-over' is broadcast after it if and only if the game is over in the new
\* position; after a checkmate the result is the color of the player who just
\* moved, otherwise 'draw'.
C28_MoveBroadcast ==
  [][Accepted(request') =>
       LET r == request'.roomId
           mover == chessTurn(rooms[r].chess)
           position == rooms'[r].chess
       IN /\ Len(emitted') >= 1
          /\ emitted'[1] = ToRoom(r, "move-made", request'.move)
          /\ IF chessIsGameOver(position)
               THEN /\ Len(emitted') = 2
                    /\ emitted'[2] = ToRoom(r, "game-over",
                                            IF chessIsCheckmate(position) THEN mover
                                            ELSE "draw")
               ELSE Len(emitted') = 1]_vars

\* C28 witness: the knights have come home for the second time, the initial position
\* stands for the third time with nobody mated: 'move-made', then 'game-over' with
\* result 'draw', were broadcast to the room.
C28_Witness ==
  /\ request.type = "move"
  /\ request.move = "f6g8"
  /\ rooms[request.roomId] # NoRoom
  /\ Len(rooms[request.roomId].chess) = 8
  /\ ~chessIsCheckmate(rooms[request.roomId].chess)
  /\ emitted = <<ToRoom(request.roomId, "move-made", "f6g8"),
                 ToRoom(request.roomId, "game-over", "draw")>>

\* Black's queen has mated on h4: 'move-made', then 'game-over' with result 'b', were
\* broadcast to the room.
MateBroadcast ==
  /\ request.type = "move"
  /\ request.move = "d8h4"
  /\ rooms[request.roomId] # NoRoom
  /\ chessIsCheckmate(rooms[request.roomId].chess)
  /\ emitted = <<ToRoom(request.roomId, "move-made", "d8h4"),
                 ToRoom(request.roomId, "game-over", "b")>>

-----------------------------------------------------------------------------
(* The engine: what holds of every board.                                   *)

\* C29: in every state reached from the initial state by executing legal moves the
\* board holds exactly one white king and exactly one black king: no legal move
\* captures a king and no promotion creates one.
C29_OneKingEach ==
  \A c \in Color : Cardinality(Kings(state.board, c)) = 1

\* what a square can hold: one piece, or nothing
SquareContents == {null} \cup {Piece(t, c) : t \in PieceType, c \in Color}

\* C30: piece conservation: along a line of legal moves from the initial state, for
\* each color the pieces of that color on the board and the entries of
\* capturedPieces for that color are 16 together, and every square holds one piece
\* at most.
C30_PieceConservation ==
  /\ \A c \in Color :
       Cardinality(PiecesOf(state.board, c)) + Len(heap[state.capturedPieces][c]) = 16
  /\ \A p \in Squares : state.board[p.row][p.col] \in SquareContents

\* C30 witness: White has promoted on h8 after four captures: 16 white pieces and
\* 12 black ones stand on the board, four black ones are on the list.
C30_Witness ==
  /\ lastCall # NoCall
  /\ LandsOnLastRank(lastCall.move)
  /\ Cardinality(PiecesOf(state.board, "w")) = 16
  /\ Cardinality(PiecesOf(state.board, "b")) = 12
  /\ Len(heap[state.capturedPieces].b) = 4
  /\ heap[state.capturedPieces].w = <<>>

\* C31: in every state reached from the initial state by legal moves, a castling
\* right that is true has that color's king on column 4 of its home row and a rook
\* of that color on the right's corner.
C31_RightsHavePieces ==
  \A c \in Color : \A side \in Sides :
    state.castlingRights[c][side] =>
      /\ state.board[IF c = "w" THEN 7 ELSE 0][4] = Piece("k", c)
      /\ state.board[HomeCorner(c, side).row][HomeCorner(c, side).col] = Piece("r", c)

\* C31 witness: White's king-side rook has left h1 and that right is gone; the
\* queen-side right is still true, with the king on e1 and the rook on a1.
C31_Witness ==
  /\ lastCall # NoCall
  /\ lastCall.move.piece = Piece("r", "w")
  /\ lastCall.move.from = Position(7, 7)
  /\ ~state.castlingRights.w.kingSide
  /\ state.castlingRights.w.queenSide
  /\ state.board[7][4] = Piece("k", "w")
  /\ state.board[7][0] = Piece("r", "w")
  /\ state.board[7][7] = null

\* C32: executeMove changes the type of the moved piece only when the move is a pawn
\* move landing on the last rank: after any other legal move the destination holds a
\* piece of the type that left the origin, whatever promotionOverride was passed.
C32_TypeKept ==
  (lastCall # NoCall /\ ~LandsOnLastRank(lastCall.move)) =>
    state.board[lastCall.move.to.row][lastCall.move.to.col].type
      = lastCall.move.piece.type

\* C33: a room never has more than two players: a 'join-room' request arriving when
\* the room already has two players adds nobody, changes no room and no socket, and
\* is answered with 'room-full' to the requester and nothing else.
C33_RoomFull ==
  /\ [](\A r \in RoomIds : Len(rooms[r].players) <= 2)
  /\ [][(request'.type = "join-room" /\ Len(rooms[request'.roomId].players) >= 2) =>
         /\ rooms' = rooms
         /\ sockets' = sockets
         /\ emitted' = <<ToSocket(request'.socket, "room-full", "")>>]_vars

\* C33 witness: a third socket asked to join a room of two and was answered
\* 'room-full'; the room still has its two players and the third is not one of them.
C33_Witness ==
  /\ request.type = "join-room"
  /\ emitted = <<ToSocket(request.socket, "room-full", "")>>
  /\ Len(rooms[request.roomId].players) = 2
  /\ ~Joined(rooms[request.roomId], request.socket)
  /\ sockets[request.socket].roomId = undefined

\* C34: after a socket disconnects, its id is on no room's player list and no room
\* with an empty player list remains in the registry, whatever 'join-room' events
\* the socket issued before (the same room twice, or several rooms).
C34_DisconnectCleansUp ==
  [][request'.type = "disconnect" =>
       \A r \in RoomIds :
         /\ ~Joined(rooms'[r], request'.socket)
         /\ rooms'[r] # NoRoom => rooms'[r].players # <<>>]_vars

\* C35: the server accepts no move in a room while fewer than two players are
\* present in it, that is before 'game-start' has been emitted for the room or after
\* one of the two players has disconnected.
C35_NoMoveWithoutOpponent ==
  [][Accepted(request') => Len(rooms[request'.roomId].players) = 2]_vars

====
